---- MODULE Spec2Model ----
(***************************************************************************)
(* A model of zfree (src/src/zfree.py): a zram-aware free(1) look-alike.   *)
(*                                                                         *)
(* Two specifications are given.                                           *)
(*   Spec    one run of main(): unit selection, the platform check, the    *)
(*           file reads, the parsers, the conversion pass, the formatting  *)
(*           and the final write, one action per step of main().           *)
(*   SpecFn  direct calls of the pure functions convert() and autorange()  *)
(*           on inputs drawn from bounded sets.                            *)
(*                                                                         *)
(* Representation of Python values                                         *)
(*   None            the empty tuple <<>>                                  *)
(*   a number        <<n, d, e2, e5>>, denoting (n / d) * 2^e2 * 5^e5; an  *)
(*                   int v read by int() is <<v, 1, 0, 0>>.  Every unit    *)
(*                   multiplier of the program is 2^a * 5^b, so that the   *)
(*                   conversions are exact on this form (the rounding of   *)
(*                   Python's floats is not modelled)                      *)
(*   a (value, unit) tuple   <<value, unit>>; None in the unit slot is the *)
(*                   string NoneUnit, since units are strings              *)
(*   an OrderedDict  a sequence of <<key, value>> pairs, in insertion      *)
(*                   order                                                 *)
(***************************************************************************)
EXTENDS Integers, Sequences, FiniteSets

VARIABLES
    \* ---- one run of main() ----
    pc,             \* the position of main()
    args,           \* the parsed command line (argparse namespace)
    platform,       \* sys.platform
    unit,           \* main(): unit
    meminfo,        \* main(): meminfo, the text of /proc/meminfo or None
    swaps,          \* main(): swaps, the text of /proc/swaps or None
    psi_memory,     \* main(): psi_memory, the text of /proc/pressure/memory
    mm_stat,        \* main(): mm_stat, the text of the zram mm_stat file
    psi,            \* main(): psi
    disk_swap,      \* main(): disk_swap
    zram_swap,      \* main(): zram_swap
    meminfo_stats,  \* main(): meminfo_stats
    output,         \* main(): output, the report under construction
    stdout,         \* what the process has printed on standard output
    stderr,         \* what the process has printed on standard error
    exit,           \* None while running, else [kind, status]
    log,            \* the reads, scans and parses done so far, in order
    \* ---- direct calls of the pure functions ----
    fn_call,        \* the call made last, or None
    fn_ret,         \* what it returned
    fn_prev         \* the autorange call before it, or None

run_vars == <<pc, args, platform, unit, meminfo, swaps, psi_memory, mm_stat,
              psi, disk_swap, zram_swap, meminfo_stats, output, stdout,
              stderr, exit, log>>
fn_vars == <<fn_call, fn_ret, fn_prev>>
vars == <<run_vars, fn_vars>>

-----------------------------------------------------------------------------
(* Python values *)

None == <<>>
NoneUnit == "None"

\* the int v, as int() returns it
Num(v) == <<v, 1, 0, 0>>

min(a, b) == IF a < b THEN a ELSE b

\* seq[i] with Python's indexing: 0-based, negative indices count from the end
PyIndex(seq, i) == IF i >= 0 THEN seq[i + 1] ELSE seq[Len(seq) + i + 1]

\* d[key] of an OrderedDict
Get(d, key) == d[CHOOSE i \in DOMAIN d : d[i][1] = key][2]
Keys(d) == [i \in DOMAIN d |-> d[i][1]]
HasKey(d, key) == \E i \in DOMAIN d : d[i][1] = key

-----------------------------------------------------------------------------
(* Exact non-negative integers of any size, as little-endian base-1000      *)
(* digits: the byte counts of autorange() exceed 32 bits.                   *)

RECURSIVE BigOfInt(_)
BigOfInt(v) == IF v < 1000 THEN <<v>>
               ELSE <<v % 1000>> \o BigOfInt(v \div 1000)

RECURSIVE BigMulCarry(_, _, _)
BigMulCarry(b, c, carry) ==
    IF b = <<>> THEN (IF carry = 0 THEN <<>> ELSE BigOfInt(carry))
    ELSE LET t == Head(b) * c + carry
         IN  <<t % 1000>> \o BigMulCarry(Tail(b), c, t \div 1000)

RECURSIVE BigMulPow(_, _, _)
\* b * c^k
BigMulPow(b, c, k) == IF k = 0 THEN b
                      ELSE BigMulPow(BigMulCarry(b, c, 0), c, k - 1)

\* the integer n * 2^e2 * 5^e5 (n >= 0, e2 >= 0, e5 >= 0)
BigOfNum(x) == BigMulPow(BigMulPow(BigOfInt(x[1]), 2, x[3]), 5, x[4])

RECURSIVE BigLess(_, _)
BigLess(a, b) ==
    IF Len(a) # Len(b) THEN Len(a) < Len(b)
    ELSE IF a = <<>> THEN FALSE
    ELSE LET k == Len(a)
         IN  IF a[k] # b[k] THEN a[k] < b[k]
             ELSE BigLess(SubSeq(a, 1, k - 1), SubSeq(b, 1, k - 1))

-----------------------------------------------------------------------------
(* convert() and autorange() *)

ConcreteUnits == {"B", "KB", "KiB", "MB", "MiB", "GB", "GiB", "TB", "TiB"}
AutoUnits == {"autodecimal", "autobinary"}

\* the multiplier of each unit, 2^a * 5^b, as <<a, b>>
prefixes == [u \in ConcreteUnits |->
    CASE u = "B"   -> <<0, 0>>
      [] u = "KB"  -> <<3, 3>>
      [] u = "KiB" -> <<10, 0>>
      [] u = "MB"  -> <<6, 6>>
      [] u = "MiB" -> <<20, 0>>
      [] u = "GB"  -> <<9, 9>>
      [] u = "GiB" -> <<30, 0>>
      [] u = "TB"  -> <<12, 12>>
      [] u = "TiB" -> <<40, 0>>]

mappingbinary == <<"B", "KiB", "MiB", "GiB", "TiB">>
mappingdecimal == <<"B", "KB", "MB", "GB", "TiB">>

\* value * (prefixes[in_unit] / prefixes[out_unit])
Scale(value, in_unit, out_unit) ==
    <<value[1], value[2],
      value[3] + prefixes[in_unit][1] - prefixes[out_unit][1],
      value[4] + prefixes[in_unit][2] - prefixes[out_unit][2]>>

\* what convert() yields when it ends the process with sys.exit()
ConvertExit == <<None, "sys.exit">>

\* math.log(x, 1000) raises ValueError for x <= 0
LogRaises(x) == x[1] <= 0

\* a variant of floor_log1000 that looks at the number before its unit was
\* applied, tiering by the magnitude in the caller's unit
floor_log1000_of_value(x) == Len(BigOfInt(x[1])) - 1

\* math.floor(math.log(x, 1000)) of a byte count x >= 1: the number of
\* base-1000 digits of x, less one.  (The byte counts are integers: the
\* parsers build every value with int(), in KiB or in B.)
floor_log1000(x) == Len(BigOfNum(x)) - 1

RECURSIVE autorange(_, _)

\* a variant of convert() that labels an absent value with the target unit
convert_keeps_unit(n, out_unit) ==
    LET value == n[1]
        in_unit == n[2]
    IN  IF in_unit = "" THEN <<value, "">>
        ELSE IF value = None THEN <<None, out_unit>>
        ELSE IF in_unit \in AutoUnits THEN ConvertExit
        ELSE IF out_unit = "autodecimal" THEN autorange(n, TRUE)
        ELSE IF out_unit = "autobinary" THEN autorange(n, FALSE)
        ELSE <<Scale(value, in_unit, out_unit), out_unit>>

convert(n, out_unit) ==
    LET value == n[1]
        in_unit == n[2]
    IN  IF in_unit = "" THEN <<value, "">>
        ELSE IF value = None THEN <<None, NoneUnit>>
        ELSE IF in_unit \in AutoUnits THEN ConvertExit
        ELSE IF out_unit = "autodecimal" THEN autorange(n, TRUE)
        ELSE IF out_unit = "autobinary" THEN autorange(n, FALSE)
        ELSE <<Scale(value, in_unit, out_unit), out_unit>>

autorange(n, want_decimal) ==
    LET shifted == convert(n, "B")
        shiftvalue == shifted[1]
    IN  IF shifted = ConvertExit THEN ConvertExit
        ELSE IF shiftvalue = None THEN <<None, NoneUnit>>
        ELSE LET length == min(IF LogRaises(shiftvalue) THEN 0
                               ELSE floor_log1000(shiftvalue), 4)
             IN  IF want_decimal
                 THEN convert(n, PyIndex(mappingdecimal, length))
                 ELSE convert(n, PyIndex(mappingbinary, length))

convert_all(d, out_unit) ==
    [i \in DOMAIN d |-> <<d[i][1], convert(d[i][2], out_unit)>>]

-----------------------------------------------------------------------------
(* What a function call ends in: a returned value, sys.exit(msg) or an      *)
(* exception nobody catches.                                                *)

Return(v) == [kind |-> "return", value |-> v]
Exit(msg) == [kind |-> "exit", msg |-> msg]
Raise(exc) == [kind |-> "raise", exc |-> exc]

\* Python's truth value of an Optional text or OrderedDict (the file texts
\* and the records of this model are never empty)
Truthy(x) == x # None

-----------------------------------------------------------------------------
(* The texts of the kernel files.                                           *)
(*   /proc/meminfo          a sequence of lines <<key, value>>, the value   *)
(*                          being the int before the unit                   *)
(*   /proc/swaps            a sequence of lines, the column headings first; *)
(*                          a line is the sequence of its columns, and a    *)
(*                          column is a word or a number                    *)
(*   mm_stat                the sequence of its (integer) fields            *)
(*   /proc/pressure/memory  a sequence of lines, each the sequence of the   *)
(*                          values of its "key=value" tokens, in hundredths *)

\* a column that int() rejects; parts is the column split at "/"
Word(parts) == [parts |-> parts, int |-> None]
\* a column that int() reads as v
Number(v) == [parts |-> <<"0">>, int |-> <<v>>]

ZramNames == {"zram0"}

\* re.search(R".*zram.*", row)
IsZramRow(row) ==
    \E i \in DOMAIN row : \E j \in DOMAIN row[i].parts :
        row[i].parts[j] \in ZramNames

SwapsHeader == <<Word(<<"Filename">>), Word(<<"Type">>), Word(<<"Size">>),
                 Word(<<"Used">>), Word(<<"Priority">>)>>
DiskRow == <<Word(<<"", "dev", "sda2">>), Word(<<"partition">>),
             Number(4000000), Number(1000000), Number(-2)>>
DiskRowShort == <<Word(<<"", "dev", "sda2">>), Word(<<"partition">>)>>
DiskRowNonNumeric == <<Word(<<"", "dev", "sda2">>), Word(<<"partition">>),
                       Word(<<"big">>), Number(1000000), Number(-2)>>
ZramRow == <<Word(<<"", "dev", "zram0">>), Word(<<"partition">>),
             Number(2000000), Number(500000), Number(100)>>
ZramRowBare == <<Word(<<"zram0">>), Word(<<"partition">>),
                 Number(2000000), Number(500000), Number(100)>>
WellFormedRows == {DiskRow, ZramRow}
MalformedRows == {DiskRowShort, DiskRowNonNumeric, ZramRowBare}
SwapRows == WellFormedRows \cup MalformedRows

MaxRows == 3

RECURSIVE SeqsUpTo(_, _)
SeqsUpTo(S, k) ==
    IF k = 0 THEN {<<>>}
    ELSE LET shorter == SeqsUpTo(S, k - 1)
         IN  shorter \cup {Append(s, x) : s \in shorter, x \in S}

\* the swap tables: the headings, then at most MaxRows rows, all well formed
\* but possibly the last
SwapsFiles ==
    {<<SwapsHeader>> \o rows :
        rows \in {r \in SeqsUpTo(SwapRows, MaxRows) :
                     \A i \in 1..(Len(r) - 1) : r[i] \in WellFormedRows}}

MemExample == << <<"MemTotal", 8000000>>, <<"MemFree", 2000000>>,
                 <<"MemAvailable", 4000000>>, <<"Buffers", 100000>>,
                 <<"Cached", 900000>>, <<"SwapCached", 0>> >>
MemSmall == << <<"MemTotal", 1000>>, <<"MemFree", 100>>,
               <<"MemAvailable", 450>>, <<"Buffers", 50>>,
               <<"Cached", 250>>, <<"SwapCached", 7>> >>
\* keys that parse_meminfo() needs, one for each of its three outcomes when
\* a key is missing
MemKeys == {"MemTotal", "MemAvailable", "Cached"}
Without(lines, key) == SelectSeq(lines, LAMBDA l : l[1] # key)
MeminfoFiles == {MemExample, MemSmall}
                    \cup {Without(MemExample, k) : k \in MemKeys}

MmStatExample == <<1048576, 0, 2097152, 0, 0, 0, 0, 0, 0>>
MmStatZero == <<0, 0, 0, 0, 0, 0, 0, 0, 0>>
MmStatShort == <<1048576, 0>>
MmStatFiles == {MmStatExample, MmStatZero, MmStatShort}

PsiExample == << <<12, 34, 56, 789>>, <<0, 5, 10, 0>> >>
\* a pressure text without its second line
PsiOneLine == << <<12, 34, 56, 789>> >>
PsiFiles == {PsiExample, PsiOneLine}

-----------------------------------------------------------------------------
(* The parsers *)

\* gather_zram_mmstat(), up to the open(): the path of the mm_stat to read,
\* split at "/" (a Return), "no zram row" (Return(None)) or the IndexError
\* exit
zram_mmstat_path(swaps_text) ==
    IF \A i \in DOMAIN swaps_text : ~IsZramRow(swaps_text[i])
    THEN Return(None)
    ELSE LET first == CHOOSE i \in DOMAIN swaps_text :
                          /\ IsZramRow(swaps_text[i])
                          /\ \A j \in 1..(i - 1) : ~IsZramRow(swaps_text[j])
             cols == swaps_text[first]
         IN  IF Len(cols[1].parts) < 3
             THEN Exit("Internal error: /proc/swaps not in expected format")
             ELSE Return(<<"", "sys", "class", "block", cols[1].parts[3],
                           "mm_stat">>)

\* f"/sys/class/block/{dev}/mm_stat", from the path split at "/"
path_text(path) ==
    "/" \o path[2] \o "/" \o path[3] \o "/" \o path[4] \o "/" \o path[5]
        \o "/" \o path[6]

\* a variant of parse_disk_swap() that keeps the last disk row instead of
\* refusing a second one
parse_disk_swap_last(swaps_text) ==
    LET trimmed == Tail(swaps_text)
        disk == SelectSeq(trimmed, LAMBDA row : ~IsZramRow(row))
    IN  IF Len(disk) = 0 THEN Return(None)
        ELSE LET cols == disk[Len(disk)]
             IN  IF Len(cols) < 3
                 THEN Exit("Internal error: /proc/swaps not in expected format")
                 ELSE IF cols[3].int = None THEN Raise("ValueError")
                 ELSE IF Len(cols) < 4
                 THEN Exit("Internal error: /proc/swaps not in expected format")
                 ELSE IF cols[4].int = None THEN Raise("ValueError")
                 ELSE LET total == cols[3].int[1]
                          used == cols[4].int[1]
                          free == total - used
                      IN  Return(<< <<"total", <<Num(total), "KiB">> >>,
                                    <<"used", <<Num(used), "KiB">> >>,
                                    <<"free", <<Num(free), "KiB">> >> >>)

parse_disk_swap(swaps_text) ==
    LET trimmed == Tail(swaps_text)
        disk == SelectSeq(trimmed, LAMBDA row : ~IsZramRow(row))
    IN  IF Len(disk) > 1
        THEN Exit("Error: having multiple disk swap devices is unsupported")
        ELSE IF Len(disk) = 0 THEN Return(None)
        ELSE LET cols == disk[1]
             IN  IF Len(cols) < 3
                 THEN Exit("Internal error: /proc/swaps not in expected format")
                 ELSE IF cols[3].int = None THEN Raise("ValueError")
                 ELSE IF Len(cols) < 4
                 THEN Exit("Internal error: /proc/swaps not in expected format")
                 ELSE IF cols[4].int = None THEN Raise("ValueError")
                 ELSE LET total == cols[3].int[1]
                          used == cols[4].int[1]
                          free == total - used
                      IN  Return(<< <<"total", <<Num(total), "KiB">> >>,
                                    <<"used", <<Num(used), "KiB">> >>,
                                    <<"free", <<Num(free), "KiB">> >> >>)

parse_zram_swap(mmstat) ==
    LET m == mmstat
    IN  IF Len(m) < 3 THEN Raise("IndexError")
        ELSE LET data == m[1]
                 total == m[3]
                 ratio == IF total = 0 THEN None ELSE <<data, total, 0, 0>>
             IN  Return(<< <<"data", <<Num(data), "B">> >>,
                           <<"total", <<Num(total), "B">> >>,
                           <<"ratio", <<ratio, "">> >> >>)

\* the memdict of parse_meminfo(): a later line overrides an earlier one
MemDict(lines) ==
    [k \in {lines[i][1] : i \in DOMAIN lines} |->
        lines[CHOOSE i \in DOMAIN lines :
                  /\ lines[i][1] = k
                  /\ \A j \in DOMAIN lines : j > i => lines[j][1] # k][2]]

\* a variant of parse_meminfo() with the older formula for "used",
\* total - free - bufcache
parse_meminfo_free_based(meminfo_text) ==
    LET memdict == MemDict(meminfo_text)
        has(k) == k \in DOMAIN memdict
    IN  IF ~has("MemTotal") THEN Raise("KeyError")
        ELSE IF ~has("MemAvailable")
        THEN Exit("MemAvailable in /proc/meminfo absent. How old is this kernel?")
        ELSE IF ~has("MemFree") \/ ~has("Buffers") \/ ~has("Cached")
        THEN Raise("KeyError")
        ELSE LET total == memdict["MemTotal"]
                 available == memdict["MemAvailable"]
                 free == memdict["MemFree"]
                 bufcache == memdict["Buffers"] + memdict["Cached"]
                 used == total - free - bufcache
             IN  Return(<< <<"total", <<Num(total), "KiB">> >>,
                           <<"used", <<Num(used), "KiB">> >>,
                           <<"avail", <<Num(available), "KiB">> >>,
                           <<"cache", <<Num(bufcache), "KiB">> >>,
                           <<"free", <<Num(free), "KiB">> >> >>)

parse_meminfo(meminfo_text) ==
    LET memdict == MemDict(meminfo_text)
        has(k) == k \in DOMAIN memdict
    IN  IF ~has("MemTotal") THEN Raise("KeyError")
        ELSE IF ~has("MemAvailable")
        THEN Exit("MemAvailable in /proc/meminfo absent. How old is this kernel?")
        ELSE IF ~has("MemFree") \/ ~has("Buffers") \/ ~has("Cached")
        THEN Raise("KeyError")
        ELSE LET total == memdict["MemTotal"]
                 available == memdict["MemAvailable"]
                 free == memdict["MemFree"]
                 bufcache == memdict["Buffers"] + memdict["Cached"]
                 used == total - available
             IN  Return(<< <<"total", <<Num(total), "KiB">> >>,
                           <<"used", <<Num(used), "KiB">> >>,
                           <<"avail", <<Num(available), "KiB">> >>,
                           <<"cache", <<Num(bufcache), "KiB">> >>,
                           <<"free", <<Num(free), "KiB">> >> >>)

parse_psi(psi_text) ==
    IF Len(psi_text) < 2 THEN Raise("IndexError")
    ELSE LET some == SubSeq(psi_text[1], 1, min(3, Len(psi_text[1])))
             full == SubSeq(psi_text[2], 1, min(3, Len(psi_text[2])))
         IN  IF Len(some) < 3 \/ Len(full) < 3 THEN Raise("ValueError")
             ELSE Return(<< <<"some", some>>, <<"full", full>> >>)

-----------------------------------------------------------------------------
(* The formatters.  A formatted number is kept as the number, the count of  *)
(* decimal places and the suffix; the padding to the column width is left   *)
(* out.  A table is the sequence of its printed lines, a line the sequence  *)
(* of its fields.                                                           *)

\* f"{vu[0]:.{dp}f}{vu[1]}": None has no format "f"
format_value_unit(vu, dp) ==
    IF vu[1] = None THEN Raise("TypeError")
    ELSE Return([value |-> vu[1], dp |-> dp, suffix |-> vu[2]])

format_value_unit_all(d) ==
    IF \E i \in DOMAIN d : format_value_unit(d[i][2], 1).kind = "raise"
    THEN Raise("TypeError")
    ELSE Return([i \in DOMAIN d |->
                    <<d[i][1], format_value_unit(d[i][2], 1).value>>])

\* zip(*t), one printed line per element; f"{field:>{width}}" raises
\* ValueError ("Sign not allowed in string format specifier") for the first
\* field when the width is negative
format_table(t, width) ==
    LET shortest == CHOOSE k \in {Len(t[i]) : i \in DOMAIN t} :
                        \A i \in DOMAIN t : k <= Len(t[i])
    IN  IF t = <<>> THEN Return(<<>>)
        ELSE IF shortest = 0 THEN Return(<<>>)
        ELSE IF width < 0 THEN Raise("ValueError")
        ELSE Return([j \in 1..shortest |-> [i \in DOMAIN t |-> t[i][j]]])

\* ret += format_table(table, width): the block, or the exception
with_table(title_block, table) ==
    IF table.kind = "raise" THEN table
    ELSE Return([block |-> title_block.block, title |-> title_block.title,
                 width |-> title_block.width, table |-> table.value])

\* swapinfo.get(h, "")
GetOr(d, key, default) == IF HasKey(d, key) THEN Get(d, key) ELSE default

format_meminfo(meminfo_d, swapinfo, show_disk_swap, width) ==
    LET with_swap == Truthy(swapinfo) /\ show_disk_swap
        mem == format_value_unit_all(meminfo_d)
        swap == IF with_swap THEN format_value_unit_all(swapinfo)
                ELSE Return(swapinfo)
    IN  IF mem.kind = "raise" \/ swap.kind = "raise" THEN Raise("TypeError")
        ELSE LET table == [i \in DOMAIN mem.value |->
                     LET h == mem.value[i][1]
                     IN  IF with_swap
                         THEN <<h, Get(mem.value, h), GetOr(swap.value, h, "")>>
                         ELSE <<h, Get(mem.value, h)>>]
             IN  with_table(
                     [block |-> "memory", width |-> width,
                      title |-> IF with_swap THEN "Memory/swap" ELSE "Memory"],
                     format_table(table, width))

\* x / y * 100.0
Percent(x, y) == <<x[1] * y[2], x[2] * y[1], x[3] - y[3] + 2, x[4] - y[4] + 2>>

format_zram(zram_d, meminfo_d, width) ==
    LET memtotal == convert(Get(meminfo_d, "total"), "B")[1]
        ztotal == convert(Get(zram_d, "total"), "B")[1]
    IN  IF memtotal = None \/ ztotal = None
        THEN Exit("internal error: total RAM or zram is None?")
        ELSE IF memtotal[1] = 0 THEN Raise("ZeroDivisionError")
        ELSE LET totalpercent == Percent(ztotal, memtotal)
                 data == format_value_unit(Get(zram_d, "data"), 1)
                 total == format_value_unit(Get(zram_d, "total"), 1)
                 ratio == format_value_unit(Get(zram_d, "ratio"), 2)
                 comp == format_value_unit(<<totalpercent, "%">>, 2)
             IN  IF \E r \in {data, total, ratio, comp} : r.kind = "raise"
                 THEN Raise("TypeError")
                 ELSE with_table(
                          [block |-> "zram", title |-> "zram", width |-> width],
                          format_table(<< <<"data", data.value>>,
                                          <<"total", total.value>>,
                                          <<"ratio", ratio.value>>,
                                          <<"comp%", comp.value>> >>, width))

\* the PSI line of main(): each row, then " / "
format_psi(psi_d) ==
    [block |-> "psi", title |-> "psi some/full: ",
     text |-> << [values |-> psi_d[1][2], dp |-> 2], " / ",
                 [values |-> psi_d[2][2], dp |-> 2], " / " >>]

\* output.rstrip(" / "): only the PSI line ends in blanks or slashes
rstrip(out) ==
    LET last == out[Len(out)]
    IN  IF last.block = "psi"
        THEN [out EXCEPT ![Len(out)] =
                 [last EXCEPT !.text = SubSeq(last.text, 1, Len(last.text) - 1)]]
        ELSE out

-----------------------------------------------------------------------------
(* One run of main() *)

\* the unit flags, in the order of the dict units of main()
UnitFlags == <<"KiB", "KB", "MiB", "MB", "GiB", "GB", "TiB", "TB", "auto">>
FlagSet == {UnitFlags[i] : i \in DOMAIN UnitFlags}

MaxFlags == 2

\* the widths of -w/--width that int() accepts: the default, 11, and a
\* negative one
Widths == {11, -3}

\* what the command line holds besides the unit flags, --si, -S, -Z, -P and
\* a valid -w: nothing, --help, an option the parser does not know, or a
\* width that is not an integer
RestArgs == {<<>>, <<"--help">>, <<"--bogus">>, <<"-w", "x">>}

\* the command lines: the flags given, the width, and the rest
ArgSets == [units : {f \in SUBSET FlagSet : Cardinality(f) <= MaxFlags},
            si : BOOLEAN, S : BOOLEAN, Z : BOOLEAN, P : BOOLEAN,
            width : Widths, rest : RestArgs]

\* the prog of the ArgumentParser: the base name of sys.argv[0]
Prog == "zfree.py"

\* parser.format_usage(), from the add_argument() calls, at 80 columns
UsageText ==
    "usage: zfree.py [-k] [-K] [-m] [-M] [-g] [-G] [--tera] [--tebi] [-h] [--si]\n"
    \o "                [-S] [-Z] [-P] [-w WIDTH] [--help]\n"

\* parser.format_help(): the usage, then the help of each option
HelpText ==
    UsageText
    \o "\noptions:\n"
    \o "  -k, --kibi            show output in kibibytes\n"
    \o "  -K, --kilo            show output in kilobytes\n"
    \o "  -m, --mebi            show output in mebibytes\n"
    \o "  -M, --mega            show output in megabytes\n"
    \o "  -g, --gibi            show output in gibibytes\n"
    \o "  -G, --giga            show output in gigabytes\n"
    \o "  --tera                show output in terabytes\n"
    \o "  --tebi                show output in tebibytes\n"
    \o "  -h                    do autoranging (\"human-readable\")\n"
    \o "  --si, --decimal       (-h only) use powers of 1000 not 1024\n"
    \o "  -S                    do not display disk swap stats\n"
    \o "  -Z                    do not display zram swap stats\n"
    \o "  -P                    do not display PSI\n"
    \o "  -w WIDTH, --width WIDTH\n"
    \o "                        output width of each column\n"
    \o "  --help                this help\n"

show_disk_swap == ~args.S
show_zram_swap == ~args.Z
show_psi == ~args.P

\* sys.exit(msg): the message on standard error, exit status 1
SysExit(msg) ==
    /\ stderr' = Append(stderr, msg)
    /\ exit' = [kind |-> "exit", status |-> 1]
    /\ pc' = "done"

\* an exception that nothing catches: the traceback on standard error,
\* exit status 1
Uncaught(exc) ==
    /\ stderr' = Append(stderr, "Traceback (most recent call last): " \o exc)
    /\ exit' = [kind |-> "raise", status |-> 1]
    /\ pc' = "done"

Goto(next) ==
    /\ pc' = next
    /\ UNCHANGED <<stderr, exit>>

\* parser.error(msg): the usage and the message on standard error, exit
\* status 2
UsageError(msg) ==
    /\ stderr' = stderr \o <<UsageText, Prog \o ": error: " \o msg \o "\n">>
    /\ exit' = [kind |-> "exit", status |-> 2]
    /\ pc' = "done"

Init ==
    /\ pc = "parse_args"
    /\ args \in ArgSets
    /\ platform \in {"linux", "darwin"}
    /\ unit = None
    /\ meminfo = None
    /\ swaps = None
    /\ psi_memory = None
    /\ mm_stat = None
    /\ psi = None
    /\ disk_swap = None
    /\ zram_swap = None
    /\ meminfo_stats = None
    /\ output = None
    /\ stdout = <<>>
    /\ stderr = <<>>
    /\ exit = None
    /\ log = <<>>
    /\ fn_call = None
    /\ fn_ret = None
    /\ fn_prev = None

\* main(), lines 378-423: parser.parse_args().  The action "help" prints
\* the help on standard output and ends the process with status 0, before
\* any check of main(); an unknown option or a width that int() rejects
\* ends it through parser.error()
ParseArgs ==
    /\ pc = "parse_args"
    /\ IF args.rest = <<>>
       THEN Goto("select_unit") /\ stdout' = stdout
       ELSE IF args.rest[1] = "--help"
       THEN /\ stdout' = Append(stdout, HelpText)
            /\ exit' = [kind |-> "exit", status |-> 0]
            /\ pc' = "done"
            /\ stderr' = stderr
       ELSE IF args.rest[1] = "-w"
       THEN /\ UsageError("argument -w/--width: invalid int value: '"
                              \o args.rest[2] \o "'")
            /\ stdout' = stdout
       ELSE /\ UsageError("unrecognized arguments: " \o args.rest[1])
            /\ stdout' = stdout
    /\ UNCHANGED <<args, platform, unit, meminfo, swaps, psi_memory, mm_stat,
                   psi, disk_swap, zram_swap, meminfo_stats, output, log,
                   fn_vars>>

\* main(), lines 425-451
SelectUnit ==
    /\ pc = "select_unit"
    /\ LET unitsenabled == Cardinality(args.units)
           first == CHOOSE i \in DOMAIN UnitFlags :
                        /\ UnitFlags[i] \in args.units
                        /\ \A j \in 1..(i - 1) : UnitFlags[j] \notin args.units
           selected == IF unitsenabled = 0 THEN "MiB" ELSE UnitFlags[first]
       IN  IF unitsenabled > 1
           THEN /\ SysExit("error: cannot specify more than 1 unit")
                /\ unit' = unit
           ELSE IF args.si /\ selected # "auto"
           THEN /\ SysExit("error: --si/--decimal only has effect in combination with -h.")
                /\ unit' = selected
           ELSE /\ unit' = IF selected # "auto" THEN selected
                           ELSE IF args.si THEN "autodecimal" ELSE "autobinary"
                /\ Goto("check_platform")
    /\ UNCHANGED <<args, platform, meminfo, swaps, psi_memory, mm_stat, psi,
                   disk_swap, zram_swap, meminfo_stats, output, stdout, log,
                   fn_vars>>

\* main(), lines 453-454
CheckPlatform ==
    /\ pc = "check_platform"
    /\ IF platform # "linux"
       THEN SysExit("zfree can only run on Linux.")
       ELSE Goto("read_meminfo")
    /\ UNCHANGED <<args, platform, unit, meminfo, swaps, psi_memory, mm_stat,
                   psi, disk_swap, zram_swap, meminfo_stats, output, stdout,
                   log, fn_vars>>

\* gather(): check_open_read("/proc/meminfo"); None when open() fails
ReadMeminfo ==
    /\ pc = "read_meminfo"
    /\ \E text \in MeminfoFiles \cup {None} : meminfo' = text
    /\ log' = Append(log, <<"read", "/proc/meminfo">>)
    /\ Goto("read_swaps")
    /\ UNCHANGED <<args, platform, unit, swaps, psi_memory, mm_stat, psi,
                   disk_swap, zram_swap, meminfo_stats, output, stdout,
                   fn_vars>>

\* gather(): check_open_read("/proc/swaps")
ReadSwaps ==
    /\ pc = "read_swaps"
    /\ \E text \in SwapsFiles \cup {None} : swaps' = text
    /\ log' = Append(log, <<"read", "/proc/swaps">>)
    /\ Goto("read_psi")
    /\ UNCHANGED <<args, platform, unit, meminfo, psi_memory, mm_stat, psi,
                   disk_swap, zram_swap, meminfo_stats, output, stdout,
                   fn_vars>>

\* a variant of ReadPsi that parses the pressure text as soon as it is read
ReadPsiAndParse ==
    /\ pc = "read_psi"
    /\ \E text \in PsiFiles \cup {None} : psi_memory' = text
    /\ log' = log \o << <<"read", "/proc/pressure/memory">>,
                        <<"parse", "/proc/pressure/memory">> >>
    /\ Goto("gather_zram")
    /\ UNCHANGED <<args, platform, unit, meminfo, swaps, mm_stat, psi,
                   disk_swap, zram_swap, meminfo_stats, output, stdout,
                   fn_vars>>

\* gather(): check_open_read("/proc/pressure/memory")
ReadPsi ==
    /\ pc = "read_psi"
    /\ \E text \in PsiFiles \cup {None} : psi_memory' = text
    /\ log' = Append(log, <<"read", "/proc/pressure/memory">>)
    /\ Goto("gather_zram")
    /\ UNCHANGED <<args, platform, unit, meminfo, swaps, mm_stat, psi,
                   disk_swap, zram_swap, meminfo_stats, output, stdout,
                   fn_vars>>

\* main(), lines 462-465, with gather_zram_mmstat(): the swap table is
\* searched for a zram row, then the mm_stat of its device is read; an
\* mm_stat that cannot be opened (None here) ends the run
GatherZram ==
    /\ pc = "gather_zram"
    /\ IF show_zram_swap /\ Truthy(swaps)
       THEN LET dev == zram_mmstat_path(swaps)
                scanned == Append(log, <<"scan", "/proc/swaps">>)
            IN  IF dev.kind = "exit"
                THEN /\ SysExit(dev.msg)
                     /\ log' = scanned
                     /\ mm_stat' = mm_stat
                ELSE IF dev.value = None
                THEN /\ mm_stat' = None
                     /\ log' = scanned
                     /\ Goto("parse_psi")
                ELSE \E text \in MmStatFiles \cup {None} :
                     /\ log' = Append(scanned, <<"read", dev.value[6]>>)
                     /\ IF text = None
                        THEN /\ SysExit("Internal error: tried to find zram swap mm_stat, but "
                                     \o path_text(dev.value)
                                     \o " doesn't exist")
                             /\ mm_stat' = mm_stat
                        ELSE /\ mm_stat' = text
                             /\ Goto("parse_psi")
       ELSE /\ mm_stat' = None
            /\ log' = log
            /\ Goto("parse_psi")
    /\ UNCHANGED <<args, platform, unit, meminfo, swaps, psi_memory, psi,
                   disk_swap, zram_swap, meminfo_stats, output, stdout,
                   fn_vars>>

\* main(), lines 467-470
ParsePsi ==
    /\ pc = "parse_psi"
    /\ IF show_psi /\ Truthy(psi_memory)
       THEN LET r == parse_psi(psi_memory)
            IN  /\ log' = Append(log, <<"parse", "/proc/pressure/memory">>)
                /\ IF r.kind = "raise"
                   THEN Uncaught(r.exc) /\ psi' = psi
                   ELSE psi' = r.value /\ Goto("parse_disk_swap")
       ELSE /\ psi' = None
            /\ log' = log
            /\ Goto("parse_disk_swap")
    /\ UNCHANGED <<args, platform, unit, meminfo, swaps, psi_memory, mm_stat,
                   disk_swap, zram_swap, meminfo_stats, output, stdout,
                   fn_vars>>

\* main(), lines 472-475
ParseDiskSwap ==
    /\ pc = "parse_disk_swap"
    /\ IF show_disk_swap /\ Truthy(swaps)
       THEN LET r == parse_disk_swap(swaps)
            IN  /\ log' = Append(log, <<"parse", "/proc/swaps">>)
                /\ CASE r.kind = "exit" -> SysExit(r.msg) /\ disk_swap' = disk_swap
                     [] r.kind = "raise" -> Uncaught(r.exc) /\ disk_swap' = disk_swap
                     [] OTHER -> disk_swap' = r.value /\ Goto("parse_zram_swap")
       ELSE /\ disk_swap' = None
            /\ log' = log
            /\ Goto("parse_zram_swap")
    /\ UNCHANGED <<args, platform, unit, meminfo, swaps, psi_memory, mm_stat,
                   psi, zram_swap, meminfo_stats, output, stdout, fn_vars>>

\* main(), lines 476-479
ParseZramSwap ==
    /\ pc = "parse_zram_swap"
    /\ IF show_zram_swap /\ Truthy(mm_stat)
       THEN LET r == parse_zram_swap(mm_stat)
            IN  /\ log' = Append(log, <<"parse", "mm_stat">>)
                /\ IF r.kind = "raise"
                   THEN Uncaught(r.exc) /\ zram_swap' = zram_swap
                   ELSE zram_swap' = r.value /\ Goto("parse_meminfo")
       ELSE /\ zram_swap' = None
            /\ log' = log
            /\ Goto("parse_meminfo")
    /\ UNCHANGED <<args, platform, unit, meminfo, swaps, psi_memory, mm_stat,
                   psi, disk_swap, meminfo_stats, output, stdout, fn_vars>>

\* main(), lines 481-484
ParseMeminfo ==
    /\ pc = "parse_meminfo"
    /\ IF Truthy(meminfo)
       THEN LET r == parse_meminfo(meminfo)
            IN  /\ log' = Append(log, <<"parse", "/proc/meminfo">>)
                /\ CASE r.kind = "exit" ->
                            SysExit(r.msg) /\ meminfo_stats' = meminfo_stats
                     [] r.kind = "raise" ->
                            Uncaught(r.exc) /\ meminfo_stats' = meminfo_stats
                     [] OTHER -> meminfo_stats' = r.value /\ Goto("convert_all")
       ELSE /\ SysExit("internal error: how'd you get this far without a /proc/meminfo?")
            /\ meminfo_stats' = meminfo_stats
            /\ log' = log
    /\ UNCHANGED <<args, platform, unit, meminfo, swaps, psi_memory, mm_stat,
                   psi, disk_swap, zram_swap, output, stdout, fn_vars>>

\* main(), lines 486-490
ConvertAll ==
    /\ pc = "convert_all"
    /\ meminfo_stats' = convert_all(meminfo_stats, unit)
    /\ disk_swap' = IF Truthy(disk_swap) /\ show_disk_swap
                    THEN convert_all(disk_swap, unit) ELSE disk_swap
    /\ zram_swap' = IF Truthy(zram_swap) /\ show_zram_swap
                    THEN convert_all(zram_swap, unit) ELSE zram_swap
    /\ Goto("format")
    /\ UNCHANGED <<args, platform, unit, meminfo, swaps, psi_memory, mm_stat,
                   psi, output, stdout, log, fn_vars>>

\* main(), lines 492-503: the report, or how building it ends the run;
\* partial is the output built before the run ended
format_report ==
    LET mem == format_meminfo(meminfo_stats, disk_swap, show_disk_swap,
                              args.width)
        zram == IF show_zram_swap /\ Truthy(zram_swap)
                THEN format_zram(zram_swap, meminfo_stats, args.width)
                ELSE Return(None)
        psi_line == IF show_psi /\ Truthy(psi)
                    THEN <<format_psi(psi)>> ELSE <<>>
    IN  CASE mem.kind = "raise" -> [kind |-> "raise", exc |-> mem.exc,
                                    partial |-> output]
          [] mem.kind # "raise" /\ zram.kind = "exit" ->
                 [kind |-> "exit", msg |-> zram.msg, partial |-> <<mem.value>>]
          [] mem.kind # "raise" /\ zram.kind = "raise" ->
                 [kind |-> "raise", exc |-> zram.exc, partial |-> <<mem.value>>]
          [] OTHER ->
                 Return(rstrip(<<mem.value>>
                     \o (IF zram.value = None THEN <<>> ELSE <<zram.value>>)
                     \o psi_line))

\* a variant of EndFormat in which format_zram() prints as it goes
EndFormatEager(r) ==
    CASE r.kind = "exit" -> /\ SysExit(r.msg)
                            /\ output' = r.partial
                            /\ stdout' = Append(stdout, "zram")
      [] r.kind = "raise" -> /\ Uncaught(r.exc)
                             /\ output' = r.partial
                             /\ stdout' = Append(stdout, "zram")
      [] OTHER -> output' = r.value /\ Goto("print") /\ stdout' = stdout

\* main(), lines 492-503: the run ends where building the report r ends it,
\* or goes on to print r; nothing is printed before line 504
EndFormat(r) ==
    CASE r.kind = "exit" -> /\ SysExit(r.msg)
                            /\ output' = r.partial
                            /\ stdout' = stdout
      [] r.kind = "raise" -> /\ Uncaught(r.exc)
                             /\ output' = r.partial
                             /\ stdout' = stdout
      [] OTHER -> output' = r.value /\ Goto("print") /\ stdout' = stdout

\* main(), lines 492-503
Format ==
    /\ pc = "format"
    /\ EndFormat(format_report)
    /\ UNCHANGED <<args, platform, unit, meminfo, swaps, psi_memory, mm_stat,
                   psi, disk_swap, zram_swap, meminfo_stats, log, fn_vars>>

\* main(), line 504, and the return of main()
WriteReport ==
    /\ pc = "print"
    /\ stdout' = Append(stdout, output)
    /\ exit' = [kind |-> "ok", status |-> 0]
    /\ pc' = "done"
    /\ UNCHANGED <<args, platform, unit, meminfo, swaps, psi_memory, mm_stat,
                   psi, disk_swap, zram_swap, meminfo_stats, output, stderr,
                   log, fn_vars>>

Next ==
    \/ ParseArgs
    \/ SelectUnit
    \/ CheckPlatform
    \/ ReadMeminfo
    \/ ReadSwaps
    \/ ReadPsi
    \/ GatherZram
    \/ ParsePsi
    \/ ParseDiskSwap
    \/ ParseZramSwap
    \/ ParseMeminfo
    \/ ConvertAll
    \/ Format
    \/ WriteReport

Spec == Init /\ [][Next]_vars

-----------------------------------------------------------------------------
(* Direct calls of convert() and autorange() *)

MaxVal == 2

\* the values handed to the functions: small ints and the ints around the
\* steps of the unit ladders
FnInts == (-1..MaxVal) \cup {999, 1000, 1001, 1023, 1024, 1536, 999999,
                             1000000, 8000000}
FnValues == {Num(v) : v \in FnInts} \cup {None}

IdleArgs == [units |-> {}, si |-> FALSE, S |-> FALSE, Z |-> FALSE, P |-> FALSE,
             width |-> 11, rest |-> <<>>]

InitFn ==
    /\ pc = "idle"
    /\ args = IdleArgs
    /\ platform = "linux"
    /\ unit = None
    /\ meminfo = None
    /\ swaps = None
    /\ psi_memory = None
    /\ mm_stat = None
    /\ psi = None
    /\ disk_swap = None
    /\ zram_swap = None
    /\ meminfo_stats = None
    /\ output = None
    /\ stdout = <<>>
    /\ stderr = <<>>
    /\ exit = None
    /\ log = <<>>
    /\ fn_call = None
    /\ fn_ret = None
    /\ fn_prev = None

\* convert(n, out_unit), as the first call
CallConvert ==
    /\ pc = "idle"
    /\ fn_call = None
    /\ \E value \in FnValues, in_unit \in ConcreteUnits \cup AutoUnits \cup {""},
          out_unit \in ConcreteUnits \cup AutoUnits :
          /\ fn_call' = [fn |-> "convert", n |-> <<value, in_unit>>,
                         out_unit |-> out_unit]
          /\ fn_ret' = convert(<<value, in_unit>>, out_unit)
    /\ fn_prev' = None
    /\ UNCHANGED run_vars

\* autorange(n, want_decimal), as the first call or after one call of
\* autorange(), which is then kept in fn_prev
CallAutorange ==
    /\ pc = "idle"
    /\ IF fn_call = None THEN TRUE
       ELSE fn_call.fn = "autorange" /\ fn_prev = None
    /\ \E value \in FnValues, in_unit \in ConcreteUnits, want_decimal \in BOOLEAN :
          /\ fn_call' = [fn |-> "autorange", n |-> <<value, in_unit>>,
                         want_decimal |-> want_decimal]
          /\ fn_ret' = autorange(<<value, in_unit>>, want_decimal)
    /\ fn_prev' = IF fn_call = None THEN None
                  ELSE [call |-> fn_call, ret |-> fn_ret]
    /\ UNCHANGED run_vars

NextFn ==
    \/ CallConvert
    \/ CallAutorange

SpecFn == InitFn /\ [][NextFn]_vars

-----------------------------------------------------------------------------
(* Properties of convert() and autorange(), checked under SpecFn *)

IsConvertCall == fn_call # None /\ fn_call.fn = "convert"
IsAutorangeCall == fn_call # None /\ fn_call.fn = "autorange"

\* C1, as stated: convert() of an absent value, whatever the source unit
\* (a concrete unit or the empty unit) and whatever the target unit, returns
\* (absent, absent).
C1_AbsentAlwaysAbsent ==
    (IsConvertCall /\ fn_call.n[1] = None
        /\ fn_call.n[2] \in ConcreteUnits \cup {""})
    => fn_ret = <<None, NoneUnit>>

\* C1, amended: convert() of an absent value returns (absent, absent) for
\* every concrete source unit and every target unit; with the empty source
\* unit the quantity passes through unchanged, as (absent, "").
C1_AbsentPropagation ==
    /\ (IsConvertCall /\ fn_call.n[1] = None /\ fn_call.n[2] \in ConcreteUnits)
       => fn_ret = <<None, NoneUnit>>
    /\ (IsConvertCall /\ fn_call.n[1] = None /\ fn_call.n[2] = "")
       => fn_ret = <<None, "">>

C1_Witness ==
    /\ IsConvertCall
    /\ fn_call.n = <<None, "KiB">>
    /\ fn_call.out_unit = "autodecimal"
    /\ fn_ret = <<None, NoneUnit>>

\* the byte count of an int value in a concrete unit
BytesOf(n) == Scale(n[1], n[2], "B")

LadderDecimal == <<"B", "KB", "MB", "GB", "TB">>
LadderBinary == <<"B", "KiB", "MiB", "GiB", "TiB">>

\* C3: autorange() of a present value in a concrete unit returns the unit of
\* the chosen system (decimal: B, KB, MB, GB, TB; binary: B, KiB, MiB, GiB,
\* TiB) at index min(floor(log1000(bytes)), 4), index 0 when bytes <= 0, and
\* a value that denotes the same byte count.
C3_AutorangeUnitOfSystem ==
    (IsAutorangeCall /\ fn_call.n[1] # None)
    => LET bytes == BytesOf(fn_call.n)
           index == IF bytes[1] <= 0 THEN 0
                    ELSE min(Len(BigOfNum(bytes)) - 1, 4)
           ladder == IF fn_call.want_decimal THEN LadderDecimal
                     ELSE LadderBinary
       IN  /\ fn_ret[2] = ladder[index + 1]
           /\ BytesOf(fn_ret) = bytes

\* the tier of a unit: its index in either ladder
UnitTier(u) == CASE u = "B" -> 0
                 [] u \in {"KB", "KiB"} -> 1
                 [] u \in {"MB", "MiB"} -> 2
                 [] u \in {"GB", "GiB"} -> 3
                 [] u \in {"TB", "TiB"} -> 4

NonNegative(n) == n[1] # None /\ n[1][1] >= 0
BytesLess(n1, n2) == BigLess(BigOfNum(BytesOf(n1)), BigOfNum(BytesOf(n2)))

\* C4: autorange() always returns a unit of the 5-entry ladder (tier 0..4),
\* and of two calls with byte counts 0 <= b1 < b2 the one with b2 returns a
\* tier that is not below the tier of the one with b1.
C4_TierMonotoneAndBounded ==
    /\ (IsAutorangeCall /\ fn_call.n[1] # None)
       => /\ fn_ret[2] \in ConcreteUnits
          /\ UnitTier(fn_ret[2]) \in 0..4
    /\ (IsAutorangeCall /\ fn_prev # None
            /\ NonNegative(fn_call.n) /\ NonNegative(fn_prev.call.n))
       => /\ BytesLess(fn_prev.call.n, fn_call.n)
             => UnitTier(fn_prev.ret[2]) <= UnitTier(fn_ret[2])
          /\ BytesLess(fn_call.n, fn_prev.call.n)
             => UnitTier(fn_ret[2]) <= UnitTier(fn_prev.ret[2])

C4_Witness ==
    /\ IsAutorangeCall
    /\ fn_prev # None
    /\ fn_prev.call.n = <<Num(999), "B">>
    /\ fn_call.n = <<Num(1), "KiB">>
    /\ BytesLess(fn_prev.call.n, fn_call.n)
    /\ UnitTier(fn_prev.ret[2]) = 0
    /\ UnitTier(fn_ret[2]) = 1

-----------------------------------------------------------------------------
(* Properties of a run of main(), checked under Spec *)

Last(seq) == seq[Len(seq)]

\* the rows of the swap table that are not zram rows
DiskRows(swaps_text) == SelectSeq(Tail(swaps_text), LAMBDA row : ~IsZramRow(row))
HasZramRow(swaps_text) == \E i \in DOMAIN swaps_text : IsZramRow(swaps_text[i])

HasBlock(report, name) == \E i \in DOMAIN report : report[i].block = name

\* the run reached the formatting of a zram record whose ratio is absent,
\* with a column width that format_table() accepts
AbsentRatioFormatted ==
    /\ pc = "done"
    /\ show_zram_swap
    /\ args.width >= 0
    /\ meminfo_stats # None
    /\ zram_swap # None
    /\ Get(zram_swap, "ratio") = <<None, "">>

\* C2: a run whose zram statistics have total = 0, so that the ratio is
\* absent, and whose zram display is enabled still ends successfully, with a
\* zram block in the report, for every unit.
C2_AbsentRatioIsNotAnError ==
    AbsentRatioFormatted
    => /\ exit.kind = "ok"
       /\ stdout = <<output>>
       /\ HasBlock(output, "zram")

MultiDisk == swaps # None /\ Len(DiskRows(swaps)) >= 2
MultiDiskMsg == "Error: having multiple disk swap devices is unsupported"

\* C5, as stated: every run whose swap table was read and holds two or more
\* non-zram rows ends with the fatal "multiple disk swap devices" error, a
\* non-zero status and nothing on standard output, whichever of -S, -Z, -P
\* are given.
C5_MultiDiskAlwaysFatal ==
    (pc = "done" /\ MultiDisk)
    => /\ exit.kind = "exit"
       /\ exit.status # 0
       /\ stderr = <<MultiDiskMsg>>
       /\ stdout = <<>>

\* the run was ended by gather_zram_mmstat(): the zram row of the table has
\* no device path, or the mm_stat of its device cannot be opened
EndedInZramLookup ==
    /\ show_zram_swap
    /\ HasZramRow(swaps)
    /\ exit.kind = "exit"
    /\ Len(stderr) = 1
    /\ Last(log) \in {<<"scan", "/proc/swaps">>, <<"read", "mm_stat">>}
    /\ mm_stat = None

\* the run was ended by parse_psi(), on a malformed pressure text
EndedInParsePsi ==
    /\ show_psi
    /\ psi_memory # None
    /\ parse_psi(psi_memory).kind = "raise"
    /\ exit.kind = "raise"
    /\ Last(log) = <<"parse", "/proc/pressure/memory">>

\* C5, amended: a run without -S whose swap table holds two or more non-zram
\* rows ends with a non-zero status and nothing on standard output, whichever
\* of -Z and -P are given; it ends with the "multiple disk swap devices"
\* error unless one of the two steps that come before parse_disk_swap() has
\* already ended it: the zram mm_stat lookup (only without -Z and with a zram
\* row in the table) or the parsing of a malformed pressure text (only
\* without -P).  (With -S the disk rows are never parsed.)
C5_MultiDiskFatalUnlessSuppressed ==
    (pc = "done" /\ MultiDisk /\ ~args.S)
    => /\ exit.status # 0
       /\ stdout = <<>>
       /\ output = None
       /\ \/ /\ exit.kind = "exit"
             /\ stderr = <<MultiDiskMsg>>
             /\ Last(log) = <<"parse", "/proc/swaps">>
          \/ EndedInZramLookup
          \/ EndedInParsePsi

\* two disk rows and a zram row whose mm_stat was read, neither -S nor -Z nor
\* -P: the run got past the zram lookup and the pressure text and was ended
\* by parse_disk_swap()
C5_Witness ==
    /\ pc = "done"
    /\ MultiDisk
    /\ HasZramRow(swaps)
    /\ ~args.S /\ ~args.Z /\ ~args.P
    /\ mm_stat # None
    /\ psi # None
    /\ exit # None
    /\ exit.kind = "exit"
    /\ stderr = <<MultiDiskMsg>>
    /\ Last(log) = <<"parse", "/proc/swaps">>

\* the run was asked for the help of the argument parser
HelpRun == args.rest # <<>> /\ args.rest[1] = "--help"

\* C6, as stated: in every run nothing is written to standard output before
\* every fatal check (usage, platform, gathering, parsing, conversion,
\* formatting) has passed: whatever standard output holds was written as the
\* last step of a run that went through all of main(), and is the report.
C6_StdoutOnlyAfterAllChecks ==
    stdout # <<>>
    => /\ pc = "done"
       /\ exit.kind = "ok"
       /\ platform = "linux"
       /\ Last(log)[1] = "parse"
       /\ stdout = <<output>>

\* C6, amended: in a run without --help, standard output is empty while the
\* run goes on, holds exactly the finished report after a successful run,
\* and is empty after a run that ended with a non-zero status (a usage
\* error of the argument parser included).  A run with --help writes the
\* help text, and no report, as its only step and ends with status 0 before
\* any check of the unit flags or of the platform.
C6_NoPartialReport ==
    /\ pc # "done" => stdout = <<>>
    /\ pc = "done"
       => IF exit.kind = "ok"
          THEN exit.status = 0 /\ stdout = <<output>>
          ELSE IF HelpRun
          THEN exit.status = 0 /\ stdout = <<HelpText>> /\ output = None
          ELSE exit.status # 0 /\ stdout = <<>>

C6_Witness ==
    /\ pc = "done"
    /\ exit # None
    /\ exit.status # 0
    /\ output # None
    /\ Len(output) >= 1
    /\ stdout = <<>>

ParsedSources == {"/proc/meminfo", "/proc/swaps", "mm_stat"}

\* the run was ended by the parser that ran last
EndedInParser ==
    /\ pc = "done"
    /\ exit.status # 0
    /\ meminfo_stats = None
    /\ meminfo # None
    /\ log # <<>>
    /\ Last(log)[1] = "parse"
    /\ Last(log)[2] \in ParsedSources

\* C7: a parser that meets a missing required memory key, a swap-table row
\* with too few columns or a non-numeric size or used column, or an mm_stat
\* line of fewer than three fields ends the run through the diagnostic exit,
\* with one message, never through an exception that nothing catches.
C7_ParseFailuresExitExplicitly ==
    EndedInParser => exit.kind = "exit" /\ Len(stderr) = 1

MmStatUnreadable ==
    /\ exit.kind = "exit"
    /\ Last(log) = <<"read", "mm_stat">>
    /\ mm_stat = None

\* the memory source is present and well formed, and every other source is
\* absent or well formed: at most one disk row, an mm_stat that can be read
SourcesAbsentOrWellFormed ==
    /\ meminfo \in {MemExample, MemSmall}
    /\ swaps # None => /\ \A i \in 2..Len(swaps) : swaps[i] \in {DiskRow, ZramRow}
                       /\ Len(DiskRows(swaps)) <= 1
    /\ mm_stat # None => Len(mm_stat) >= 3
    /\ ~MmStatUnreadable
    /\ psi_memory # None => psi_memory = PsiExample

\* C8: with a well-formed memory source, whichever of the other sources are
\* absent (no swap table, no pressure file, no disk row, no zram row), the
\* run ends successfully and prints the memory block; the disk-swap column,
\* the zram block and the PSI line are printed exactly when their source is
\* present and not suppressed by -S, -Z or -P.  (Stated for the runs whose
\* column width is not negative: a negative -w ends every run in
\* format_table(), whatever the sources.)
C8_AbsenceIsNotAnError ==
    (pc = "done" /\ SourcesAbsentOrWellFormed /\ args.width >= 0)
    => /\ exit.kind = "ok"
       /\ stdout = <<output>>
       /\ output[1].block = "memory"
       /\ (output[1].title = "Memory/swap")
             <=> (show_disk_swap /\ swaps # None /\ Len(DiskRows(swaps)) = 1)
       /\ HasBlock(output, "zram")
             <=> (show_zram_swap /\ swaps # None /\ HasZramRow(swaps))
       /\ HasBlock(output, "psi") <=> (show_psi /\ psi_memory # None)

\* C9, as stated: every read of a source comes before any text of any source
\* is looked at, the search of the swap table for the zram row included.
C9_ReadsBeforeAnyInspection ==
    \A i, j \in DOMAIN log :
        (i < j /\ log[j][1] = "read") => log[i][1] = "read"

\* C9, amended: every read of a source comes before any parse_* routine
\* runs, and the three sources of gather() are read before any text is
\* looked at; the one inspection that comes before a read is the search of
\* the swap table for the zram row, which comes before the read of that
\* device's mm_stat.
C9_ReadsBeforeParsers ==
    \A i, j \in DOMAIN log :
        (i < j /\ log[j][1] = "read")
        => \/ log[i][1] = "read"
           \/ /\ log[i] = <<"scan", "/proc/swaps">>
              /\ log[j] = <<"read", "mm_stat">>

C9_Witness ==
    /\ pc = "done"
    /\ exit # None
    /\ exit.kind = "ok"
    /\ Len(log) >= 6
    /\ log[4] = <<"scan", "/proc/swaps">>
    /\ log[5] = <<"read", "mm_stat">>
    /\ \E k \in DOMAIN log : log[k] = <<"parse", "mm_stat">>

\* the value of a key of the memory text
MemValue(text, key) == text[CHOOSE i \in DOMAIN text : text[i][1] = key][2]

\* the record C10 describes, in KiB
ExpectedMemRecord(text) ==
    << <<"total", MemValue(text, "MemTotal")>>,
       <<"used", MemValue(text, "MemTotal") - MemValue(text, "MemAvailable")>>,
       <<"avail", MemValue(text, "MemAvailable")>>,
       <<"cache", MemValue(text, "Buffers") + MemValue(text, "Cached")>>,
       <<"free", MemValue(text, "MemFree")>> >>

\* C10: parse_meminfo() returns the fields total, used, avail, cache, free,
\* in that order and in KiB, with used = total - available, avail =
\* available, cache = buffers + cached and free = free (8000000, 4000000,
\* 4000000, 1000000, 2000000 for the example), and convert_all() keeps the
\* keys and their order, each value converted to the unit.
C10_MemoryRecord ==
    /\ pc = "convert_all"
       => /\ meminfo_stats = [i \in 1..5 |->
                 <<ExpectedMemRecord(meminfo)[i][1],
                   <<Num(ExpectedMemRecord(meminfo)[i][2]), "KiB">> >>]
          /\ meminfo = MemExample
             => [i \in 1..5 |-> meminfo_stats[i][2][1][1]]
                    = <<8000000, 4000000, 4000000, 1000000, 2000000>>
    /\ pc \in {"format", "print"}
       => /\ Keys(meminfo_stats) = <<"total", "used", "avail", "cache", "free">>
          /\ unit \in ConcreteUnits
             => \A i \in 1..5 : meminfo_stats[i][2] =
                    <<Scale(Num(ExpectedMemRecord(meminfo)[i][2]), "KiB", unit),
                      unit>>
          /\ unit \in AutoUnits
             => \A i \in 1..5 :
                    BytesOf(meminfo_stats[i][2])
                        = BytesOf(<<Num(ExpectedMemRecord(meminfo)[i][2]), "KiB">>)

C10_Witness ==
    /\ pc = "format"
    /\ meminfo = MemExample
    /\ unit = "GB"
    /\ Keys(meminfo_stats) = <<"total", "used", "avail", "cache", "free">>
    /\ Get(meminfo_stats, "used") = <<<<4000000, 1, 1, -9>>, "GB">>

====
